---------------------------- MODULE Spec2Model ----------------------------
(***************************************************************************)
(* pali nimi: generation of words that follow Toki Pona's phonotactics.    *)
(*                                                                         *)
(* A Python string is modelled as a sequence of one-character strings, so  *)
(* that slicing, concatenation and comparison are computed, letter by      *)
(* letter, as Python computes them.                                        *)
(***************************************************************************)
EXTENDS Integers, Sequences, FiniteSets, TLC

VARIABLES
  s_in, s_res,          \* is_valid_tok_syllable: argument, <<returned value>>
  w_in, w_res,          \* is_valid_tok_word: argument, <<returned value>>
  gen, out, err,        \* yield_tok_words: generator object, words yielded
                        \* to the consumer, exception the consumer received
  opts, gpc, gi, ggen,  \* generate_words: options, position, loop variable
  words, result,        \* i, generator being iterated, local list words,
  gerr, started,        \* returned list, exception raised, number of
                        \* word generators created
  rgen, rlast           \* yield_tok_words_r: generator object of one
                        \* recursion state, what the last next() on it gave

vars == <<s_in, s_res, w_in, w_res, gen, out, err,
          opts, gpc, gi, ggen, words, result, gerr, started,
          rgen, rlast>>

None == "None"

\* no generator object yet
NoGenerator == [pc |-> "none"]

-----------------------------------------------------------------------------
(* Bounds of the model *)

\* longest argument given to is_valid_tok_syllable
MaxSyllableLen == 3
\* longest argument given to is_valid_tok_word
MaxWordLen == 4
\* largest syllable count given to yield_tok_words and generate_words
MaxSyllableCount == 2
\* most iterations of the loop of generate_words taken in one step
WordsPerStep == 4096

-----------------------------------------------------------------------------
(* Python strings *)

\* code points of the letters, the order Python compares strings by
Ord ==
  [c \in {"a","e","i","j","k","l","m","n","o","p","s","t","u","w"} |->
     CASE c = "a" -> 97  [] c = "e" -> 101 [] c = "i" -> 105 [] c = "j" -> 106
       [] c = "k" -> 107 [] c = "l" -> 108 [] c = "m" -> 109 [] c = "n" -> 110
       [] c = "o" -> 111 [] c = "p" -> 112 [] c = "s" -> 115 [] c = "t" -> 116
       [] c = "u" -> 117 [] c = "w" -> 119]

Min(a, b) == IF a < b THEN a ELSE b

\* s[i:j] for 0 <= i <= j
Slice(s, i, j) == SubSeq(s, i + 1, Min(j, Len(s)))

\* s[i:]
SliceFrom(s, i) == SubSeq(s, i + 1, Len(s))

\* a < b on strings: at the first index where they differ the code point
\* decides; a proper prefix is smaller
RECURSIVE StrLessFrom(_, _, _)
StrLessFrom(a, b, k) ==
  IF k > Len(b) THEN FALSE
  ELSE IF k > Len(a) THEN TRUE
  ELSE IF a[k] = b[k] THEN StrLessFrom(a, b, k + 1)
  ELSE Ord[a[k]] < Ord[b[k]]

StrLess(a, b) == StrLessFrom(a, b, 1)

\* x in lst, for a list lst
InList(x, lst) == \E k \in 1..Len(lst) : lst[k] = x

-----------------------------------------------------------------------------
(* Phoneme inventory *)

TOK_LETTERS == <<"a","e","i","j","k","l","m","n","o","p","s","t","u","w">>
TOK_VOWELS == <<"a","e","i","o","u">>
TOK_CONSONANTS == <<"j","k","l","m","n","p","s","t","w">>

ForbiddenSyllables == << <<"t","i">>, <<"w","o">>, <<"w","u">>, <<"j","i">> >>

-----------------------------------------------------------------------------
(* is_valid_tok_syllable *)

RECURSIVE is_valid_tok_syllable(_)
is_valid_tok_syllable(s) ==
  IF Len(s) > 0 /\ s[Len(s)] = "n"
    THEN is_valid_tok_syllable(Slice(s, 0, Len(s) - 1))
  ELSE IF InList(s, ForbiddenSyllables) THEN FALSE
  ELSE IF Len(s) = 2
    THEN InList(s[1], TOK_CONSONANTS) /\ InList(s[2], TOK_VOWELS)
  ELSE IF Len(s) = 1 THEN InList(s[1], TOK_VOWELS)
  ELSE FALSE

-----------------------------------------------------------------------------
(* yield_tok_syllables *)

\* SyllablesOfConsonant with the test of line 103 guarding line 106 only
RECURSIVE SyllablesOfConsonantBareAlways(_, _)
SyllablesOfConsonantBareAlways(ltr, k) ==
  IF k > Len(TOK_VOWELS) THEN <<>>
  ELSE LET s == <<ltr, TOK_VOWELS[k]>>
       IN  <<s>> \o (IF is_valid_tok_syllable(s) THEN << s \o <<"n">> >> ELSE <<>>)
             \o SyllablesOfConsonantBareAlways(ltr, k + 1)

\* the inner loop "for v in _TOK_VOWELS" for consonant ltr, from vowel k on
RECURSIVE SyllablesOfConsonant(_, _)
SyllablesOfConsonant(ltr, k) ==
  IF k > Len(TOK_VOWELS) THEN <<>>
  ELSE LET s == <<ltr, TOK_VOWELS[k]>>
       IN  (IF is_valid_tok_syllable(s) THEN <<s, s \o <<"n">> >> ELSE <<>>)
             \o SyllablesOfConsonant(ltr, k + 1)

\* the outer loop "for ltr in _TOK_LETTERS", from letter k on
RECURSIVE SyllablesFromLetter(_)
SyllablesFromLetter(k) ==
  IF k > Len(TOK_LETTERS) THEN <<>>
  ELSE LET ltr == TOK_LETTERS[k]
       IN  (IF InList(ltr, TOK_VOWELS)
              THEN << <<ltr>>, <<ltr, "n">> >>
              ELSE SyllablesOfConsonant(ltr, 1))
             \o SyllablesFromLetter(k + 1)

yield_tok_syllables == SyllablesFromLetter(1)

TOK_SYLLABLES == yield_tok_syllables

-----------------------------------------------------------------------------
(* is_valid_tok_word *)

RECURSIVE is_valid_tok_word_r(_, _, _)
is_valid_tok_word_r(w, start, after_nasal) ==
  IF Len(w) = 0 THEN ~start
  ELSE IF InList(w[1], TOK_VOWELS) /\ ~start THEN FALSE
  ELSE IF w[1] \in {"m", "n"} /\ after_nasal THEN FALSE
  ELSE IF is_valid_tok_syllable(Slice(w, 0, 1))
            /\ is_valid_tok_word_r(SliceFrom(w, 1), FALSE, FALSE) THEN TRUE
  ELSE IF is_valid_tok_syllable(Slice(w, 0, 2))
            /\ is_valid_tok_word_r(SliceFrom(w, 2), FALSE, w[2] = "n") THEN TRUE
  ELSE IF is_valid_tok_syllable(Slice(w, 0, 3))
            /\ is_valid_tok_word_r(SliceFrom(w, 3), FALSE, TRUE) THEN TRUE
  ELSE FALSE

is_valid_tok_word(w) == is_valid_tok_word_r(w, TRUE, FALSE)

-----------------------------------------------------------------------------
(* yield_tok_words *)

\* HeadsFrom without the test of line 202
RECURSIVE HeadsFromAnyOnset(_, _, _)
HeadsFromAnyOnset(k, start, after_nasal) ==
  IF k > Len(TOK_SYLLABLES) THEN <<>>
  ELSE LET s == TOK_SYLLABLES[k]
       IN  (IF InList(s[1], TOK_VOWELS) /\ ~start THEN <<>> ELSE <<s>>)
             \o HeadsFromAnyOnset(k + 1, start, after_nasal)

\* lines 198-204: the syllables that may start a word in the given state
RECURSIVE HeadsFrom(_, _, _)
HeadsFrom(k, start, after_nasal) ==
  IF k > Len(TOK_SYLLABLES) THEN <<>>
  ELSE LET s == TOK_SYLLABLES[k]
       IN  (IF InList(s[1], TOK_VOWELS) /\ ~start THEN <<>>
            ELSE IF s[1] \in {"m", "n"} /\ after_nasal THEN <<>>
            ELSE <<s>>)
             \o HeadsFrom(k + 1, start, after_nasal)

valid_head_syllables ==
  [start \in BOOLEAN, after_nasal \in BOOLEAN |->
     HeadsFrom(1, start, after_nasal)]

\* The generator object that a call yield_tok_words_r(syllable_count, start,
\* after_nasal) returns; no line of its body has run yet.
\*   pc      where the body is suspended: "new", at the yield of line 210,
\*           246, 254 or 256, or "done" once the body has ended
\*   i       the loop variable of line 220
\*   k       the number of syllables line 210 has yielded
\*   gens    tail_gens, as <<tail_gens[syll], tail_gens[syll_n]>>
\*   cand    words, as <<words[syll], words[syll_n]>>
\*   use     syll_to_use: 1 for syll, 2 for syll_n
\*   pulled, emitted   for each side of the current pair, how many tail
\*           words were taken from its tail generator and how many of its
\*           words were yielded
\*   cmp     pulled and emitted as they were when line 240 last compared
NewWordsR(syllable_count, start, after_nasal) ==
  [sc |-> syllable_count, start |-> start, after_nasal |-> after_nasal,
   pc |-> "new", i |-> 0, k |-> 0, gens |-> <<>>, cand |-> <<>>, use |-> 1,
   pulled |-> <<0, 0>>, emitted |-> <<0, 0>>, cmp |-> <<>>]

\* what next() on a generator gives: the generator as it is left, and a
\* yielded value, StopIteration ("stop") or another exception ("raise")
Yield(g, w) == [g |-> g, kind |-> "yield", val |-> w]
Stop(g) == [g |-> [g EXCEPT !.pc = "done"], kind |-> "stop", val |-> None]
Raise(g, e) == [g |-> [g EXCEPT !.pc = "done"], kind |-> "raise", val |-> e]

\* syll (side 1) and syll_n (side 2) of the current pair, lines 221-222
HeadSyllable(g, side) == valid_head_syllables[g.start, g.after_nasal][g.i + side]

\* lines 209-210: yield from valid_head_syllables
YieldFromHeads(g) ==
  LET heads == valid_head_syllables[g.start, g.after_nasal]
  IN  IF g.k < Len(heads)
        THEN Yield([g EXCEPT !.pc = "y210", !.k = @ + 1], heads[g.k + 1])
        ELSE Stop(g)

\* CompareAndYield without the comparison of line 240
CompareAndYieldFirst(g) ==
  Yield([g EXCEPT !.use = 1,
                  !.cmp = <<g.pulled, g.emitted>>,
                  !.emitted[1] = @ + 1,
                  !.pc = "y246"],
        g.cand[1])

\* lines 238-246: pick the first word in order of the two and yield it
CompareAndYield(g) ==
  LET use == IF StrLess(g.cand[2], g.cand[1]) THEN 2 ELSE 1
  IN  Yield([g EXCEPT !.use = use,
                      !.cmp = <<g.pulled, g.emitted>>,
                      !.emitted[use] = @ + 1,
                      !.pc = "y246"],
            g.cand[use])

RECURSIVE Resume(_)
RECURSIVE ForPair(_)
RECURSIVE Drain(_)

\* Refill without the yield of line 254
RefillDropOther(g) ==
  LET u == g.use
      r == Resume(g.gens[u])
      g1 == [g EXCEPT !.gens[u] = r.g]
  IN  CASE r.kind = "yield" ->
             CompareAndYield([g1 EXCEPT !.cand[u] = HeadSyllable(g, u) \o r.val,
                                        !.pulled[u] = @ + 1])
        [] r.kind = "stop" -> Drain([g1 EXCEPT !.pc = "y254"])
        [] r.kind = "raise" -> Raise(g1, r.val)

\* Refill taking the next tail word from the generator of the other head
\* syllable
RefillOtherSide(g) ==
  LET u == g.use
      o == 3 - g.use
      r == Resume(g.gens[o])
      g1 == [g EXCEPT !.gens[o] = r.g]
  IN  CASE r.kind = "yield" ->
             CompareAndYield([g1 EXCEPT !.cand[u] = HeadSyllable(g, u) \o r.val,
                                        !.pulled[o] = @ + 1])
        [] r.kind = "stop" ->
             Yield([g1 EXCEPT !.pc = "y254", !.emitted[o] = @ + 1], g.cand[o])
        [] r.kind = "raise" -> Raise(g1, r.val)

\* lines 247-254: replace the word just yielded; when its tail generator
\* has stopped, yield the word of the other head syllable
Refill(g) ==
  LET u == g.use
      o == 3 - g.use
      r == Resume(g.gens[u])
      g1 == [g EXCEPT !.gens[u] = r.g]
  IN  CASE r.kind = "yield" ->
             CompareAndYield([g1 EXCEPT !.cand[u] = HeadSyllable(g, u) \o r.val,
                                        !.pulled[u] = @ + 1])
        [] r.kind = "stop" ->
             Yield([g1 EXCEPT !.pc = "y254", !.emitted[o] = @ + 1], g.cand[o])
        [] r.kind = "raise" -> Raise(g1, r.val)

\* lines 255-257: yield the rest of the words of the other head syllable,
\* then break and advance to the next pair
Drain(g) ==
  LET o == 3 - g.use
      r == Resume(g.gens[o])
      g1 == [g EXCEPT !.gens[o] = r.g]
  IN  CASE r.kind = "yield" ->
             Yield([g1 EXCEPT !.pc = "y256",
                              !.pulled[o] = @ + 1, !.emitted[o] = @ + 1],
                   HeadSyllable(g, o) \o r.val)
        [] r.kind = "stop" -> ForPair([g1 EXCEPT !.i = @ + 2])
        [] r.kind = "raise" -> Raise(g1, r.val)

\* lines 220-234: the next pair of head syllables, a tail generator for
\* each and the first word of each.  A StopIteration that next() raises in
\* the body of a generator leaves it as a RuntimeError.
ForPair(g) ==
  LET heads == valid_head_syllables[g.start, g.after_nasal]
      t1 == NewWordsR(g.sc - 1, FALSE, FALSE)
      t2 == NewWordsR(g.sc - 1, FALSE, TRUE)
      r1 == Resume(t1)
      r2 == Resume(t2)
      exc(r) == IF r.kind = "stop" THEN "RuntimeError" ELSE r.val
  IN  IF g.i >= Len(heads) THEN Stop(g)
      ELSE IF g.i + 2 > Len(heads) THEN Raise(g, "IndexError")
      ELSE IF r1.kind # "yield"
        THEN Raise([g EXCEPT !.gens = <<r1.g, t2>>], exc(r1))
      ELSE IF r2.kind # "yield"
        THEN Raise([g EXCEPT !.gens = <<r1.g, r2.g>>], exc(r2))
      ELSE CompareAndYield(
             [g EXCEPT !.gens = <<r1.g, r2.g>>,
                       !.cand = <<heads[g.i + 1] \o r1.val,
                                  heads[g.i + 2] \o r2.val>>,
                       !.pulled = <<1, 1>>,
                       !.emitted = <<0, 0>>])

\* next() on a generator of yield_tok_words_r: its body runs from where it
\* is suspended to its next yield, or to its end
Resume(g) ==
  CASE g.pc = "new" -> IF g.sc = 1 THEN YieldFromHeads(g) ELSE ForPair(g)
    [] g.pc = "y210" -> YieldFromHeads(g)
    [] g.pc = "y246" -> Refill(g)
    [] g.pc \in {"y254", "y256"} -> Drain(g)
    [] g.pc = "done" -> Stop(g)

\* The generator object that a call yield_tok_words(syllable_count) returns:
\* the function has a yield in its body, so the call runs none of it.
yield_tok_words(syllable_count) ==
  [syllable_count |-> syllable_count, pc |-> "new", r |-> None]

\* line 263: yield from yield_tok_words_r(syllable_count, True, False)
YieldFromWordsR(G) ==
  LET r == Resume(G.r)
      G1 == [G EXCEPT !.r = r.g]
  IN  CASE r.kind = "yield" -> Yield([G1 EXCEPT !.pc = "y263"], r.val)
        [] r.kind = "stop" -> Stop(G1)
        [] r.kind = "raise" -> Raise(G1, r.val)

\* ResumeWords returning where line 260 raises
ResumeWordsReturn(G) ==
  CASE G.pc = "new" ->
         IF G.syllable_count < 1 THEN Stop(G)
         ELSE YieldFromWordsR(
                [G EXCEPT !.r = NewWordsR(G.syllable_count, TRUE, FALSE)])
    [] G.pc = "y263" -> YieldFromWordsR(G)
    [] G.pc = "done" -> Stop(G)

\* next() on a generator of yield_tok_words, lines 259-263
ResumeWords(G) ==
  CASE G.pc = "new" ->
         IF G.syllable_count < 1 THEN Raise(G, "ValueError")
         ELSE YieldFromWordsR(
                [G EXCEPT !.r = NewWordsR(G.syllable_count, TRUE, FALSE)])
    [] G.pc = "y263" -> YieldFromWordsR(G)
    [] G.pc = "done" -> Stop(G)

-----------------------------------------------------------------------------
(* generate_words *)

TOK_NIMI_PU ==
  << <<"a">>, <<"a","k","e","s","i">>, <<"a","l","a">>,
     <<"a","l","a","s","a">>, <<"a","l","e">>, <<"a","n","p","a">>,
     <<"a","n","t","e">>, <<"a","n","u">>, <<"a","w","e","n">>, <<"e">>,
     <<"e","n">>, <<"e","s","u","n">>, <<"i","j","o">>, <<"i","k","e">>,
     <<"i","l","o">>, <<"i","n","s","a">>, <<"j","a","k","i">>,
     <<"j","a","n">>, <<"j","e","l","o">>, <<"j","o">>, <<"k","a","l","a">>,
     <<"k","a","l","a","m","a">>, <<"k","a","m","a">>, <<"k","a","s","i">>,
     <<"k","e","n">>, <<"k","e","p","e","k","e","n">>, <<"k","i","l","i">>,
     <<"k","i","w","e","n">>, <<"k","o">>, <<"k","o","n">>,
     <<"k","u","l","e">>, <<"k","u","l","u","p","u">>, <<"k","u","t","e">>,
     <<"l","a">>, <<"l","a","p","e">>, <<"l","a","s","o">>,
     <<"l","a","w","a">>, <<"l","e","n">>, <<"l","e","t","e">>, <<"l","i">>,
     <<"l","i","l","i">>, <<"l","i","n","j","a">>, <<"l","i","p","u">>,
     <<"l","o","j","e">>, <<"l","o","n">>, <<"l","u","k","a">>,
     <<"l","u","k","i","n">>, <<"l","u","p","a">>, <<"m","a">>,
     <<"m","a","m","a">>, <<"m","a","n","i">>, <<"m","e","l","i">>,
     <<"m","i">>, <<"m","i","j","e">>, <<"m","o","k","u">>,
     <<"m","o","l","i">>, <<"m","o","n","s","i">>, <<"m","u">>,
     <<"m","u","n">>, <<"m","u","s","i">>, <<"m","u","t","e">>,
     <<"n","a","n","p","a">>, <<"n","a","s","a">>, <<"n","a","s","i","n">>,
     <<"n","e","n","a">>, <<"n","i">>, <<"n","i","m","i">>,
     <<"n","o","k","a">>, <<"o">>, <<"o","l","i","n">>, <<"o","n","a">>,
     <<"o","p","e","n">>, <<"p","a","k","a","l","a">>, <<"p","a","l","i">>,
     <<"p","a","l","i","s","a">>, <<"p","a","n">>, <<"p","a","n","a">>,
     <<"p","i">>, <<"p","i","l","i","n">>, <<"p","i","m","e","j","a">>,
     <<"p","i","n","i">>, <<"p","i","p","i">>, <<"p","o","k","a">>,
     <<"p","o","k","i">>, <<"p","o","n","a">>, <<"p","u">>,
     <<"s","a","m","a">>, <<"s","e","l","i">>, <<"s","e","l","o">>,
     <<"s","e","m","e">>, <<"s","e","w","i">>, <<"s","i","j","e","l","o">>,
     <<"s","i","k","e">>, <<"s","i","n">>, <<"s","i","n","a">>,
     <<"s","i","n","p","i","n">>, <<"s","i","t","e","l","e","n">>,
     <<"s","o","n","a">>, <<"s","o","w","e","l","i">>, <<"s","u","l","i">>,
     <<"s","u","n","o">>, <<"s","u","p","a">>, <<"s","u","w","i">>,
     <<"t","a","n">>, <<"t","a","s","o">>, <<"t","a","w","a">>,
     <<"t","e","l","o">>, <<"t","e","n","p","o">>, <<"t","o","k","i">>,
     <<"t","o","m","o">>, <<"t","u">>, <<"u","n","p","a">>, <<"u","t","a">>,
     <<"u","t","a","l","a">>, <<"w","a","l","o">>, <<"w","a","n">>,
     <<"w","a","s","o">>, <<"w","a","w","a">>, <<"w","e","k","a">>,
     <<"w","i","l","e">> >>

TOK_NIMI_KU_SULI ==
  << <<"e","p","i","k","u">>, <<"j","a","s","i","m","a">>,
     <<"k","i","j","e","t","e","s","a","n","t","a","k","a","l","u">>,
     <<"k","i","n">>, <<"k","i","p","i","s","i">>,
     <<"k","o","k","o","s","i","l","a">>, <<"k","u">>,
     <<"l","a","n","p","a","n">>, <<"l","e","k","o">>, <<"m","e","s","o">>,
     <<"m","i","s","i","k","e","k","e">>, <<"m","o","n","s","u","t","a">>,
     <<"n","a","m","a","k","o">>, <<"o","k","o">>, <<"s","o","k","o">>,
     <<"t","o","n","s","i">> >>

TOK_NIMI_KU_LILI ==
  << <<"a","p","e","j","a">>, <<"e","t","e">>, <<"e","w","e">>,
     <<"i","s","i","p","i","n">>, <<"k","a","m","a","l","a","w","a","l","a">>,
     <<"k","a","n">>, <<"k","a","p","e","s","i">>, <<"k","e">>,
     <<"k","e","s","e">>, <<"k","i","k","i">>, <<"k","u","l","i","j","o">>,
     <<"k","u","n","t","u">>, <<"l","i","k","u","j","o">>,
     <<"l","i","n","l","u","w","i">>, <<"l","o","k","a">>,
     <<"m","a","j","u","n","a">>, <<"m","i","s","a">>,
     <<"m","u","l","a","p","i","s","u">>, <<"n","e","j","a">>, <<"o","k","e">>,
     <<"p","a","k","e">>, <<"p","a","t","a">>, <<"p","e","t","o">>,
     <<"p","o">>, <<"p","o","l","i","n","p","i","n">>,
     <<"p","o","m","o","t","o","l","o">>, <<"p","o","w","e">>,
     <<"s","a","m","u">>, <<"s","a","n">>, <<"s","o","t","o">>,
     <<"t","a","k","i">>, <<"t","e">>, <<"t","e","j","e">>, <<"t","o">>,
     <<"t","u","l","i">>, <<"u","m","e","s","u">>, <<"u","n","u">>,
     <<"u","s","a","w","i">>, <<"w","a">>, <<"w","a","l","e","j","a">>,
     <<"w","a","s","o","w","e","l","i">> >>

TOK_NIMI_SU ==
  << <<"m","a","j","u","n","a">>, <<"s","u">> >>

TOK_RESERVED_WORDS ==
  << <<"j","u">>, <<"l","u">>, <<"n","u">>, <<"s","u">>, <<"u">> >>

\* PaliNimiGenerationOptions.  A compiled pattern is a sequence of items
\* [c, star]: c is a letter or "." (any letter), star says whether the item
\* may repeat zero or more times.
PaliNimiGenerationOptions(min_syllables, max_syllables, exclude_pu, exclude_ku_suli, exclude_ku_lili, exclude_su, exclude_reserved, regex) ==
  [min_syllables |-> min_syllables, max_syllables |-> max_syllables,
   exclude_pu |-> exclude_pu, exclude_ku_suli |-> exclude_ku_suli,
   exclude_ku_lili |-> exclude_ku_lili, exclude_su |-> exclude_su,
   exclude_reserved |-> exclude_reserved, regex |-> regex]

\* regex.match(w): the pattern matches a prefix of w, from its first letter
RECURSIVE RegexMatch(_, _)
RegexMatch(p, w) ==
  IF p = <<>> THEN TRUE
  ELSE LET item == Head(p)
           first == w # <<>> /\ (item.c = "." \/ item.c = Head(w))
       IN  IF item.star
             THEN RegexMatch(Tail(p), w) \/ (first /\ RegexMatch(p, Tail(w)))
             ELSE first /\ RegexMatch(Tail(p), Tail(w))

\* InvalidRange without the test of line 391
InvalidRangeMinOnly(o) == o.min_syllables < 1

\* lines 389-392: the ranges generate_words rejects
InvalidRange(o) ==
  o.min_syllables < 1 \/ o.max_syllables < o.min_syllables

\* FilterAppend without the test of line 402
FilterAppendKeepSu(o, ws, w) ==
  IF o.exclude_pu /\ InList(w, TOK_NIMI_PU) THEN ws
  ELSE IF o.exclude_ku_suli /\ InList(w, TOK_NIMI_KU_SULI) THEN ws
  ELSE IF o.exclude_ku_lili /\ InList(w, TOK_NIMI_KU_LILI) THEN ws
  ELSE IF o.exclude_reserved /\ InList(w, TOK_RESERVED_WORDS) THEN ws
  ELSE IF RegexMatch(o.regex, w) THEN Append(ws, w)
  ELSE ws

\* lines 396-407: the body of the loop, for a word w: the list words after it
FilterAppend(o, ws, w) ==
  IF o.exclude_pu /\ InList(w, TOK_NIMI_PU) THEN ws
  ELSE IF o.exclude_ku_suli /\ InList(w, TOK_NIMI_KU_SULI) THEN ws
  ELSE IF o.exclude_ku_lili /\ InList(w, TOK_NIMI_KU_LILI) THEN ws
  ELSE IF o.exclude_su /\ InList(w, TOK_NIMI_SU) THEN ws
  ELSE IF o.exclude_reserved /\ InList(w, TOK_RESERVED_WORDS) THEN ws
  ELSE IF RegexMatch(o.regex, w) THEN Append(ws, w)
  ELSE ws

\* lines 395-407: k iterations of the loop "for w in yield_tok_words(i)",
\* or fewer if the generator ends before.  st is the generator, the list
\* words and what the last next() gave; the k iterations are run as two
\* halves, one after the other.
RECURSIVE ForWords(_, _, _)
ForWords(o, st, k) ==
  IF st.kind # "yield" THEN st
  ELSE IF k = 1
    THEN LET r == ResumeWords(st.g)
         IN  [g |-> r.g,
              words |-> IF r.kind = "yield"
                          THEN FilterAppend(o, st.words, r.val)
                          ELSE st.words,
              kind |-> r.kind, val |-> r.val]
  ELSE ForWords(o, ForWords(o, st, k \div 2), k - (k \div 2))

\* the list as it is, not sorted
unsorted(ws) == ws

\* sorted(words)
sorted(ws) == SortSeq(ws, StrLess)

-----------------------------------------------------------------------------
(* Inputs *)

Letters == {TOK_LETTERS[k] : k \in 1..Len(TOK_LETTERS)}

\* the strings over the alphabet of length at most n
Strings(n) == UNION {[1..k -> Letters] : k \in 0..n}

\* the syllable counts given to yield_tok_words
SyllableCounts == -1..MaxSyllableCount

AnyStar == [c |-> ".", star |-> TRUE]
Lit(c) == [c |-> c, star |-> FALSE]

\* the patterns ".*" (the default), "to" and "k.*n"
Patterns == { <<AnyStar>>, <<Lit("t"), Lit("o")>>,
              <<Lit("k"), AnyStar, Lit("n")>> }

\* the exclusion flags given to generate_words: none, each one alone, all
Exclusions ==
  { f \in [1..5 -> BOOLEAN] :
      Cardinality({k \in 1..5 : f[k]}) \in {0, 1, 5} }

\* the recursion states (start, after_nasal) yield_tok_words_r is called
\* in: line 263 for the whole word, lines 225 and 227 for a tail
RecursionStates == { <<TRUE, FALSE>>, <<FALSE, FALSE>>, <<FALSE, TRUE>> }

\* the options given to generate_words: every range with every exclusion
\* and pattern above
GenerationOptions ==
  { PaliNimiGenerationOptions(mn, mx, f[1], f[2], f[3], f[4], f[5], p) :
      mn \in SyllableCounts, mx \in SyllableCounts,
      f \in Exclusions, p \in Patterns }

-----------------------------------------------------------------------------
(* Initial states *)

SyllableIdle == s_in = <<>> /\ s_res = <<>>
WordIdle == w_in = <<>> /\ w_res = <<>>
WordsIdle == gen = NoGenerator /\ out = <<>> /\ err = None
GenerateIdle ==
  /\ opts = None /\ gpc = "idle" /\ gi = 0 /\ ggen = NoGenerator
  /\ words = <<>> /\ result = <<>> /\ gerr = None
  /\ started = 0

WordsRIdle == rgen = NoGenerator /\ rlast = [kind |-> "none", val |-> None]

Init == SyllableIdle /\ WordIdle /\ WordsIdle /\ GenerateIdle /\ WordsRIdle

InitSyllable ==
  /\ s_in \in Strings(MaxSyllableLen) /\ s_res = <<>>
  /\ WordIdle /\ WordsIdle /\ GenerateIdle /\ WordsRIdle

InitWord ==
  /\ w_in \in Strings(MaxWordLen) /\ w_res = <<>>
  /\ SyllableIdle /\ WordsIdle /\ GenerateIdle /\ WordsRIdle

syllableVars == <<s_in, s_res>>
wordVars == <<w_in, w_res>>
wordsVars == <<gen, out, err>>
generateVars == <<opts, gpc, gi, ggen, words, result, gerr, started>>
wordsRVars == <<rgen, rlast>>

-----------------------------------------------------------------------------
(* Actions *)

\* a call is_valid_tok_syllable(s_in)
CheckSyllable ==
  /\ s_res = <<>>
  /\ s_res' = <<is_valid_tok_syllable(s_in)>>
  /\ UNCHANGED <<s_in, wordVars, wordsVars, generateVars,
                 wordsRVars>>

\* a call is_valid_tok_word(w_in)
CheckWord ==
  /\ w_res = <<>>
  /\ w_res' = <<is_valid_tok_word(w_in)>>
  /\ UNCHANGED <<w_in, syllableVars, wordsVars, generateVars,
                 wordsRVars>>

\* a call yield_tok_words(n)
CallWords(n) ==
  /\ gen.pc = "none"
  /\ gen' = yield_tok_words(n)
  /\ UNCHANGED <<out, err, syllableVars, wordVars, generateVars,
                 wordsRVars>>

\* the consumer's next() on the generator
NextWord ==
  /\ gen.pc \notin {"none", "done"}
  /\ LET r == ResumeWords(gen)
     IN  /\ gen' = r.g
         /\ out' = IF r.kind = "yield" THEN Append(out, r.val) ELSE out
         /\ err' = CASE r.kind = "yield" -> None
                     [] r.kind = "stop" -> "StopIteration"
                     [] r.kind = "raise" -> r.val
  /\ UNCHANGED <<syllableVars, wordVars, generateVars,
                 wordsRVars>>

\* a call yield_tok_words_r(syllable_count, start, after_nasal), as lines
\* 225, 227 and 263 make it
CallWordsR(syllable_count, start, after_nasal) ==
  /\ rgen.pc = "none"
  /\ rgen' = NewWordsR(syllable_count, start, after_nasal)
  /\ UNCHANGED <<rlast, syllableVars, wordVars, wordsVars, generateVars>>

\* next() on that generator, as lines 230, 232, 249 and 255 and the
\* yield from of line 263 do it
NextWordsR ==
  /\ rgen.pc \notin {"none", "done"}
  /\ rlast' = [kind |-> Resume(rgen).kind, val |-> Resume(rgen).val]
  /\ rgen' = Resume(rgen).g
  /\ UNCHANGED <<syllableVars, wordVars, wordsVars, generateVars>>

\* a call generate_words(o), lines 389-393
GenerateCall(o) ==
  /\ gpc = "idle"
  /\ opts' = o
  /\ IF InvalidRange(o)
       THEN /\ gpc' = "raised"
            /\ gerr' = "ValueError"
            /\ UNCHANGED <<gi, words>>
       ELSE /\ gpc' = "for"
            /\ gi' = o.min_syllables
            /\ words' = <<>>
            /\ UNCHANGED gerr
  /\ UNCHANGED <<ggen, result, started, syllableVars, wordVars, wordsVars,
                 wordsRVars>>

\* lines 394-395: the next i of the range and the generator of the words
\* of i syllables
GenerateFor ==
  /\ gpc = "for"
  /\ gi <= opts.max_syllables
  /\ ggen' = yield_tok_words(gi)
  /\ started' = started + 1
  /\ gpc' = "body"
  /\ UNCHANGED <<opts, gi, words, result, gerr,
                 syllableVars, wordVars, wordsVars, wordsRVars>>

\* lines 395-407: where the loop stands after a run st of ForWords: the
\* generator and the list words as the run left them; when the generator
\* ended, on to the next i
AfterWords(st) ==
  /\ ggen' = st.g
  /\ words' = st.words
  /\ CASE st.kind = "yield" -> UNCHANGED <<gpc, gi, gerr>>
       [] st.kind = "stop" ->
            /\ gi' = gi + 1
            /\ gpc' = "for"
            /\ UNCHANGED gerr
       [] st.kind = "raise" ->
            /\ gpc' = "raised"
            /\ gerr' = st.val
            /\ UNCHANGED gi

\* lines 395-407: the next words of the generator, WordsPerStep of them at
\* most, each kept or dropped
GenerateBody ==
  /\ gpc = "body"
  /\ AfterWords(ForWords(opts,
                         [g |-> ggen, words |-> words,
                          kind |-> "yield", val |-> None],
                         WordsPerStep))
  /\ UNCHANGED <<opts, result, started, syllableVars, wordVars, wordsVars,
                 wordsRVars>>

\* line 408, once the range is exhausted
GenerateReturn ==
  /\ gpc = "for"
  /\ gi > opts.max_syllables
  /\ result' = sorted(words)
  /\ gpc' = "returned"
  /\ UNCHANGED <<opts, gi, ggen, words, gerr, started,
                 syllableVars, wordVars, wordsVars, wordsRVars>>

-----------------------------------------------------------------------------
(* Specifications *)

\* the consumer of one generator of yield_tok_words
Next == (\E n \in SyllableCounts : CallWords(n)) \/ NextWord
Spec == Init /\ [][Next]_vars

\* one call of is_valid_tok_syllable
NextSyllable == CheckSyllable
SpecSyllable == InitSyllable /\ [][NextSyllable]_vars

\* one call of is_valid_tok_word
NextWordCheck == CheckWord
SpecWord == InitWord /\ [][NextWordCheck]_vars

\* one call of generate_words
NextGenerate ==
  \/ \E o \in GenerationOptions : GenerateCall(o)
  \/ GenerateFor
  \/ GenerateBody
  \/ GenerateReturn
SpecGenerate == Init /\ [][NextGenerate]_vars

\* one generator of yield_tok_words_r, in each of its recursion states
NextWordsRCall ==
  \/ \E n \in 1..MaxSyllableCount, st \in RecursionStates :
       CallWordsR(n, st[1], st[2])
  \/ NextWordsR
SpecWordsR == Init /\ [][NextWordsRCall]_vars


-----------------------------------------------------------------------------
(* The grammar of syllables and words *)

Vowels == {TOK_VOWELS[k] : k \in 1..Len(TOK_VOWELS)}
Consonants == {TOK_CONSONANTS[k] : k \in 1..Len(TOK_CONSONANTS)}
ListSet(lst) == {lst[k] : k \in 1..Len(lst)}

\* the legal syllables, (C)V(N) with an onset+vowel that is not forbidden,
\* listed by onset (none first), vowel and coda (none first)
GrammarOnsets == << <<>> >> \o [k \in 1..Len(TOK_CONSONANTS) |-> <<TOK_CONSONANTS[k]>>]
GrammarCodas == << <<>>, <<"n">> >>
GrammarSyllableList ==
  LET nv == Len(TOK_VOWELS)
      nc == Len(GrammarCodas)
      shapes == [i \in 1..(Len(GrammarOnsets) * nv * nc) |->
                   <<GrammarOnsets[((i - 1) \div (nv * nc)) + 1]
                       \o <<TOK_VOWELS[(((i - 1) \div nc) % nv) + 1]>>,
                     GrammarCodas[((i - 1) % nc) + 1]>>]
      legal == SelectSeq(shapes, LAMBDA x : ~InList(x[1], ForbiddenSyllables))
  IN  [i \in 1..Len(legal) |-> legal[i][1] \o legal[i][2]]

GrammarSyllables == ListSet(GrammarSyllableList)

VowelInitial(s) == s[1] \in Vowels
NasalOnset(s) == s[1] \in {"m", "n"}
EndsInCoda(s) == s[Len(s)] = "n"

\* w is a concatenation of exactly n legal syllables, of which only one
\* that starts the word (start) is vowel-initial and none with onset m or
\* n comes directly after a coda nasal (after_nasal: one ended before w)
RECURSIVE Segments(_, _, _, _)
Segments(w, n, start, after_nasal) ==
  IF n = 0 THEN w = <<>>
  ELSE \E k \in 1..Min(3, Len(w)) :
         LET s == SubSeq(w, 1, k)
         IN  /\ s \in GrammarSyllables
             /\ start \/ ~VowelInitial(s)
             /\ ~(after_nasal /\ NasalOnset(s))
             /\ Segments(SubSeq(w, k + 1, Len(w)), n - 1, FALSE, EndsInCoda(s))

\* w is a word of the grammar
IsGrammarWord(w) == \E n \in 1..Len(w) : Segments(w, n, TRUE, FALSE)

\* the sequences of n legal syllables that make a word
RECURSIVE GrammarChainList(_)
GrammarChainList(n) ==
  LET S == GrammarSyllableList
      P == GrammarChainList(n - 1)
  IN  IF n = 1 THEN [i \in 1..Len(S) |-> <<S[i]>>]
      ELSE SelectSeq([i \in 1..(Len(P) * Len(S)) |->
                        Append(P[((i - 1) \div Len(S)) + 1],
                               S[((i - 1) % Len(S)) + 1])],
                     LAMBDA c : /\ ~VowelInitial(c[n])
                                /\ ~(EndsInCoda(c[n - 1]) /\ NasalOnset(c[n])))

RECURSIVE Concat(_)
Concat(chain) == IF chain = <<>> THEN <<>> ELSE Head(chain) \o Concat(Tail(chain))

\* the words of exactly n syllables, in lexicographic order
GrammarWordList(n) ==
  LET C == GrammarChainList(n)
  IN  SortSeq([i \in 1..Len(C) |-> Concat(C[i])], StrLess)

\* GrammarWordList(n) for each count n of the model, as a tuple
GrammarWordLists == [n \in 1..MaxSyllableCount |-> GrammarWordList(n)] \o <<>>

\* the words of exactly n syllables
GrammarWords(n) == ListSet(GrammarWordLists[n])

\* the pattern p describes the whole of s
RECURSIVE FullMatch(_, _)
FullMatch(p, s) ==
  IF p = <<>> THEN s = <<>>
  ELSE LET item == Head(p)
           first == s # <<>> /\ (item.c = "." \/ item.c = Head(s))
       IN  \/ item.star /\ FullMatch(Tail(p), s)
           \/ item.star /\ first /\ FullMatch(p, Tail(s))
           \/ ~item.star /\ first /\ FullMatch(Tail(p), Tail(s))

\* the pattern p matches w anchored at the start of w
MatchesAtStart(p, w) == \E k \in 0..Len(w) : FullMatch(p, SubSeq(w, 1, k))

\* w is in a lexical-category list whose exclusion flag is set in o
InExcludedList(o, w) ==
  \/ o.exclude_pu /\ w \in ListSet(TOK_NIMI_PU)
  \/ o.exclude_ku_suli /\ w \in ListSet(TOK_NIMI_KU_SULI)
  \/ o.exclude_ku_lili /\ w \in ListSet(TOK_NIMI_KU_LILI)
  \/ o.exclude_su /\ w \in ListSet(TOK_NIMI_SU)
  \/ o.exclude_reserved /\ w \in ListSet(TOK_RESERVED_WORDS)

\* the generator objects of yield_tok_words_r that g holds, g included
RECURSIVE Generators(_)
Generators(g) ==
  {g} \cup (IF g.gens = <<>> THEN {}
            ELSE Generators(g.gens[1]) \cup Generators(g.gens[2]))

\* the consumer's generator has started yield_tok_words_r
WordsStarted == gen.pc = "y263" \/ (gen.pc = "done" /\ gen.syllable_count >= 1)

-----------------------------------------------------------------------------
(* Properties *)

\* C1: the words yield_tok_words(n) yields are strictly increasing in
\* lexicographic order: each word yielded is greater than the one yielded
\* just before it (out only grows at its end, so this holds of every two
\* neighbours), and once the generator has ended all of out is increasing
\* and holds no word twice.
WordsStrictlyIncreasing ==
  /\ Len(out) >= 2 => StrLess(out[Len(out) - 1], out[Len(out)])
  /\ gen.pc = "done" =>
       /\ \A k \in 1..(Len(out) - 1) : StrLess(out[k], out[k + 1])
       /\ Cardinality(ListSet(out)) = Len(out)

\* "anja", the first word of the tails of "an", comes after "anin"
WordsStrictlyIncreasingWitness ==
  /\ gen.pc = "y263"
  /\ gen.syllable_count >= 2
  /\ Len(out) >= 2
  /\ out[Len(out) - 1] = <<"a","n","i","n">>
  /\ out[Len(out)] = <<"a","n","j","a">>

\* C2: yield_tok_words(n), n >= 1, yields every word of the grammar with
\* exactly n syllables.  As the words come in increasing order, this is: the
\* k-th word yielded is the k-th of these words in lexicographic order, so
\* that none is skipped, and when the generator has ended it has yielded
\* as many words as there are.
WordsComplete ==
  /\ Len(out) >= 1 =>
       /\ Len(out) <= Len(GrammarWordLists[gen.syllable_count])
       /\ out[Len(out)] = GrammarWordLists[gen.syllable_count][Len(out)]
  /\ (gen.pc = "done" /\ gen.syllable_count >= 1) =>
       Len(out) = Len(GrammarWordLists[gen.syllable_count])

\* the tails of "an" are exhausted, "apa" was yielded by line 254 and the
\* tails of "a" are being drained by line 256
WordsCompleteWitness ==
  /\ gen.pc = "y263"
  /\ gen.r.pc = "y256"
  /\ gen.r.i = 0
  /\ <<"a","p","a">> \in ListSet(out)

\* C3: every word yield_tok_words(n) yields is accepted by is_valid_tok_word
\* and is a concatenation of exactly n legal syllables that make a word.
WordsValid ==
  Len(out) >= 1 =>
    /\ is_valid_tok_word(out[Len(out)])
    /\ Segments(out[Len(out)], gen.syllable_count, TRUE, FALSE)

WordsValidWitness ==
  /\ Len(out) >= 1
  /\ gen.syllable_count >= 2
  /\ out[Len(out)] = <<"a","n","p","a">>

\* C4: is_valid_tok_word(w) is true exactly when w is a word of the grammar:
\* a nonempty concatenation of legal syllables, only the first of which may
\* be vowel-initial, none with onset m or n right after a coda nasal.
ValidWordIffGrammar ==
  w_res # <<>> => (w_res[1] <=> IsGrammarWord(w_in))

\* C5: on the strings of length at most 3, is_valid_tok_syllable is true
\* exactly of the syllables yield_tok_syllables produces.
ValidSyllableIffEnumerated ==
  (s_res # <<>> /\ Len(s_in) <= 3) =>
    (s_res[1] <=> InList(s_in, TOK_SYLLABLES))

\* C6: the list generate_words returns holds exactly the words of min to max
\* syllables (the words yield_tok_words yields for these counts) that are in
\* no list whose exclusion flag is set and that the pattern matches at
\* their start; for min = max = 1, no exclusion and the default pattern it
\* is the list of all syllables.
GenerateResultExact ==
  gpc = "returned" =>
    /\ ListSet(result) =
         { w \in UNION { GrammarWords(c) :
                           c \in opts.min_syllables..opts.max_syllables } :
             ~InExcludedList(opts, w) /\ MatchesAtStart(opts.regex, w) }
    /\ opts = PaliNimiGenerationOptions(1, 1, FALSE, FALSE, FALSE, FALSE,
                                        FALSE, <<AnyStar>>)
         => result = TOK_SYLLABLES

GenerateResultExactWitness ==
  /\ gpc = "returned"
  /\ opts.exclude_pu /\ opts.exclude_su
  /\ opts.max_syllables >= 2
  /\ result # <<>>

\* C7: the list generate_words returns is strictly increasing in
\* lexicographic order, so it is sorted and holds no word twice.
GenerateResultSorted ==
  gpc = "returned" =>
    \A k \in 1..(Len(result) - 1) : StrLess(result[k], result[k + 1])

GenerateResultSortedWitness ==
  /\ gpc = "returned"
  /\ opts.min_syllables < opts.max_syllables
  /\ result # words

\* C8, as claimed: once yield_tok_words(n) has been called with n < 1 the
\* error has been raised, and no word was produced.
InvalidCountRaisesAtCall ==
  (gen.pc # "none" /\ gen.syllable_count < 1) =>
    (err = "ValueError" /\ out = <<>>)

\* C8, amended: the call yield_tok_words(n) with n < 1 returns a generator
\* and raises nothing; the first next() on it raises ValueError and ends it;
\* no word is produced.
InvalidCountRaisesAtFirstNext ==
  (gen.pc # "none" /\ gen.syllable_count < 1) =>
    /\ out = <<>>
    /\ gen.pc = "new" => err = None
    /\ gen.pc # "new" => (gen.pc = "done" /\ err = "ValueError")

InvalidCountRaisesAtFirstNextWitness ==
  /\ gen.pc = "done"
  /\ gen.syllable_count < 1
  /\ err = "ValueError"

\* C9: generate_words with min_syllables < 1 or max_syllables <
\* min_syllables raises ValueError before it creates a word generator,
\* collects a word or returns a list.
InvalidRangeRaisesFirst ==
  (gpc # "idle" /\ (opts.min_syllables < 1
                      \/ opts.max_syllables < opts.min_syllables)) =>
    /\ gpc = "raised" /\ gerr = "ValueError"
    /\ started = 0 /\ ggen.pc = "none"
    /\ words = <<>> /\ result = <<>>

InvalidRangeRaisesFirstWitness ==
  /\ gpc = "raised"
  /\ opts.min_syllables >= 1
  /\ opts.max_syllables < opts.min_syllables

\* C10: in the merge loop of a pair of head syllables, at each comparison
\* each side has exactly one word taken from its tail generator and not
\* yet yielded; the word yielded after the comparison is one of these and
\* nothing is taken in between; and the loop is left (lines 254-257) only
\* with the tail generator of the side just yielded exhausted.
MergeHoldsOneCandidatePerSide ==
  WordsStarted =>
    \A g \in Generators(gen.r) :
      /\ g.cmp # <<>> =>
           \A side \in {1, 2} : g.cmp[1][side] = g.cmp[2][side] + 1
      /\ g.pc = "y246" =>
           /\ g.pulled = g.cmp[1]
           /\ g.emitted = [g.cmp[2] EXCEPT ![g.use] = @ + 1]
      /\ (g.gens # <<>> /\ g.pc \in {"y254", "y256", "done"}) =>
           g.gens[g.use].pc = "done"

MergeHoldsOneCandidatePerSideWitness ==
  /\ gen.pc = "y263"
  /\ gen.r.pc = "y246"
  /\ gen.r.cmp[1][1] > 1
  /\ gen.r.cmp[1][2] > 1

\* C11: in every recursion state (start, after_nasal) the word generator
\* reaches, the list valid_head_syllables has even length and each
\* syllable at an even index (from 0) is followed at once by itself plus
\* "n"; the first next() on each of the two tail generators of a pair gives
\* a word; so the recursive case raises neither IndexError at line 222 nor
\* a RuntimeError from a StopIteration at lines 230 and 232.
HeadSyllablesPairUp ==
  rgen.pc # "none" =>
    /\ rlast.kind # "raise"
    /\ \A g \in Generators(rgen) :
         /\ (<<g.start, g.after_nasal>> \in RecursionStates /\ g.sc >= 1)
         /\ Len(valid_head_syllables[g.start, g.after_nasal]) % 2 = 0
         /\ \A k \in 1..Len(valid_head_syllables[g.start, g.after_nasal]) :
              k % 2 = 1 =>
                /\ k + 1 <= Len(valid_head_syllables[g.start, g.after_nasal])
                /\ valid_head_syllables[g.start, g.after_nasal][k + 1] =
                     valid_head_syllables[g.start, g.after_nasal][k] \o <<"n">>
         /\ (g.sc >= 2 /\ g.pc \in {"y246", "y254", "y256"}) =>
              /\ g.i + 2 <= Len(valid_head_syllables[g.start, g.after_nasal])
              /\ Len(g.gens) = 2 /\ Len(g.cand) = 2
              /\ \A side \in {1, 2} :
                   /\ g.pulled[side] >= 1
                   /\ g.gens[side].pc # "new"
                   /\ Len(g.cand[side]) > Len(HeadSyllable(g, side))
         /\ (g.sc >= 2 /\ g.pc = "done") =>
              g.i = Len(valid_head_syllables[g.start, g.after_nasal])

\* a tail generator after a coda nasal, in its recursive case, is through
\* the pair of "ja" and "jan" and is merging the words of "je" and "jen"
HeadSyllablesPairUpWitness ==
  /\ rgen.pc = "y246"
  /\ rgen.sc = 2 /\ ~rgen.start /\ rgen.after_nasal
  /\ HeadSyllable(rgen, 1) = <<"j", "e">>
  /\ rlast.kind = "yield"

=============================================================================
